---- MODULE Spec2Model ----
(***************************************************************************)
(* A model of src/main.ts, the qoder-cli GitHub action: input resolution,  *)
(* binary provisioning (setupCli), config materialisation                  *)
(* (createCliConfig), process launch, the stdout/stderr 'data' handlers    *)
(* and the 'close' handler that classifies the outcome.                    *)
(*                                                                         *)
(* Text that flows through the child's pipes is a sequence of characters.  *)
(* A character is a one-character string, or one of the letters below,     *)
(* each of which stands for a fixed JSON text that the model never splits: *)
(*   "S"  {"subtype":"success","message":{"content":[{"text":"ok"}]}}      *)
(*   "U"  {"subtype":"success"}                                            *)
(*   "E"  {"subtype":"error","message":{"content":[{"text":"boom"}]}}      *)
(*   "N"  null                                                             *)
(* "{" and "}" are braces, "x" is a letter that starts no JSON value and   *)
(* "\n" is the line feed.                                                  *)
(***************************************************************************)
EXTENDS Integers, Sequences, FiniteSets, TLC

\* ------------------------------------------------------------------ bounds

\* Most lines the child writes to its stdout.
MaxStdoutLines == 2
\* Most messages the child writes to its stderr.
MaxStderrWrites == 1
\* Number of pieces the response body is piped in.
BodyChunks == 2

\* ------------------------------------------------------------------ text

Char == {"\n", "x", "{", "}", "S", "U", "E", "N"}

\* The lines the child writes to stdout, each with its line feed: the four
\* JSON texts above, the empty object, a line that is no JSON, a blank line.
StdoutLine ==
  { <<"S", "\n">>, <<"U", "\n">>, <<"E", "\n">>, <<"N", "\n">>,
    <<"{", "}", "\n">>, <<"x", "\n">>, <<"\n">> }

\* The messages the child writes to stderr.
StderrWrite == { <<"x", "\n">> }

\* The number of line feeds in a text.
RECURSIVE LineFeeds(_)
LineFeeds(s) ==
  IF s = <<>> THEN 0 ELSE (IF Head(s) = "\n" THEN 1 ELSE 0) + LineFeeds(Tail(s))

\* The concatenation of a sequence of texts.
RECURSIVE Concat(_)
Concat(ss) == IF ss = <<>> THEN <<>> ELSE Head(ss) \o Concat(Tail(ss))

\* String.prototype.split('\n'): the pieces between line feeds, empty ones kept.
RECURSIVE SplitFrom(_, _, _)
SplitFrom(s, i, cur) ==
  IF i > Len(s) THEN <<cur>>
  ELSE IF s[i] = "\n" THEN <<cur>> \o SplitFrom(s, i + 1, <<>>)
  ELSE SplitFrom(s, i + 1, Append(cur, s[i]))

Split(s) == SplitFrom(s, 1, <<>>)

IsSpace(c) == c \in {" ", "\n"}

\* String.prototype.trim(): leading and trailing white space removed.
RECURSIVE TrimLeft(_)
TrimLeft(s) == IF s # <<>> /\ IsSpace(Head(s)) THEN TrimLeft(Tail(s)) ELSE s

RECURSIVE TrimRight(_)
TrimRight(s) ==
  IF s # <<>> /\ IsSpace(s[Len(s)]) THEN TrimRight(SubSeq(s, 1, Len(s) - 1)) ELSE s

Trim(s) == TrimRight(TrimLeft(s))

\* output.split('\n').filter(line => line.trim() !== '')
NonBlankLines(output) == SelectSeq(Split(output), LAMBDA line : Trim(line) # <<>>)

\* ------------------------------------------------------------------ JSON

SyntaxError == [type |-> "SyntaxError"]

Absent == "<absent>"

JsonObject(subtype, text) == [type |-> "object", subtype |-> subtype, text |-> text]

\* JSON.parse(line): the value of a JSON text, white space around it allowed,
\* or SyntaxError.
JsonParse(line) ==
  LET t == Trim(line) IN
  IF t = <<>> THEN SyntaxError
  ELSE IF Len(t) >= 2 /\ t[1] = "{" /\ t[Len(t)] = "}"
          /\ \A i \in 2..(Len(t) - 1) : IsSpace(t[i])
    THEN JsonObject(Absent, Absent)
  ELSE IF t = <<"S">> THEN JsonObject("success", "ok")
  ELSE IF t = <<"U">> THEN JsonObject("success", Absent)
  ELSE IF t = <<"E">> THEN JsonObject("error", "boom")
  ELSE IF t = <<"N">> THEN [type |-> "null"]
  ELSE SyntaxError

IsJson(line) == JsonParse(line) # SyntaxError

\* ------------------------------------------------------------------ state

VARIABLES
  pc,                    \* where run() is
  apiKey, prompt, promptPath, systemPrompt, systemPromptFilePath, configJson,
  promptContent, systemPromptContent,
  fileReads,             \* paths given to fs.readFileSync, in order
  httpGets,              \* calls of httpClient.get
  statusCode,            \* response.message.statusCode
  cliFile,               \* the file at cliPath
  fileStream,            \* the write stream on cliPath
  configFile,            \* content of .qoder-cli.json
  logStream,             \* the write stream on ./qoder.log
  logFile,               \* what this run has written to ./qoder.log, one entry per write
  args, spawns,
  stdoutPipe, stderrPipe,       \* written by the child, not yet delivered
  stdoutChunks, stderrChunks,   \* the chunks the 'data' events have delivered
  stdoutEnded, stderrEnded,
  exited,                \* the child process has exited
  exitCode,              \* the code the 'close' handler was called with
  hostStdout,            \* process.stdout of the action
  lastJsonLine,
  resultType, resultContent,
  failed,                \* core.setFailed calls, in order
  warnings,              \* core.warning calls, in order
  successInfo,           \* core.info('qoder-cli reported success.') was called
  outputs                \* core.setOutput calls, as name/value pairs

inputVars == <<apiKey, prompt, promptPath, systemPrompt, systemPromptFilePath, configJson>>
resolveVars == <<promptContent, systemPromptContent, fileReads>>
setupVars == <<httpGets, statusCode, cliFile, fileStream>>
launchVars == <<configFile, logStream, args, spawns>>
childVars == <<stdoutPipe, stderrPipe, stdoutEnded, stderrEnded, exited>>
stdoutVars == <<stdoutChunks, hostStdout, lastJsonLine>>
streamVars == <<childVars, stdoutVars, stderrChunks, logFile>>
closeVars == <<exitCode, resultType, resultContent, successInfo, outputs>>
hostVars == <<failed, warnings>>

vars == <<pc, inputVars, resolveVars, setupVars, launchVars, streamVars, closeVars, hostVars>>

None == "<none>"

\* Values of the inputs: core.getInput returns '' for an input that is not set.
PromptInputs == {"", "A"}
PromptPathInputs == {"", "B"}
SystemPromptInputs == {"", "C"}
SystemPromptPathInputs == {"", "D"}
ApiKeyInputs == {"", "K"}
\* "{}" is valid JSON, "{\"a\":1" is the truncated text of the spec's example.
ConfigInputs == {"", "{}", "{\"a\":1"}

ConfigIsJson(configJson_) == configJson_ = "{}"

\* fs.readFileSync(path, 'utf-8') of an existing file.
FileText(path) == IF path = "B" THEN "text of B" ELSE "text of D"

HttpStatus == {"200", "404", "500"}

\* The code the 'close' event carries: a number, written in decimal, or null for
\* a child that a signal ended.
ExitCode == {"0", "7", "null"}

\* run() is called: the inputs are as the workflow gives them, nothing is done.
RunStarts ==
  /\ pc = "start"
  /\ apiKey \in ApiKeyInputs
  /\ prompt \in PromptInputs
  /\ promptPath \in PromptPathInputs
  /\ systemPrompt \in SystemPromptInputs
  /\ systemPromptFilePath \in SystemPromptPathInputs
  /\ configJson \in ConfigInputs
  /\ promptContent = ""
  /\ systemPromptContent = ""
  /\ fileReads = <<>>
  /\ httpGets = 0
  /\ statusCode = None
  /\ fileStream = "none"
  /\ logStream = "none"
  /\ logFile = <<>>
  /\ args = <<>>
  /\ spawns = 0
  /\ stdoutPipe = <<>>
  /\ stderrPipe = <<>>
  /\ stdoutChunks = <<>>
  /\ stderrChunks = <<>>
  /\ stdoutEnded = FALSE
  /\ stderrEnded = FALSE
  /\ exited = FALSE
  /\ exitCode = None
  /\ hostStdout = <<>>
  /\ lastJsonLine = <<>>
  /\ resultType = None
  /\ resultContent = None
  /\ failed = <<>>
  /\ warnings = <<>>
  /\ successInfo = FALSE
  /\ outputs = {}

\* No file at cliPath.
NoFile == [exists |-> FALSE, executable |-> FALSE, written |-> 0]

\* A run in a working directory that holds neither qoder-cli nor
\* .qoder-cli.json.
Init ==
  /\ RunStarts
  /\ cliFile = NoFile
  /\ configFile = None

\* The catch of run(): core.setFailed(error.message), and run() returns.
Catch(message) ==
  /\ pc' = "failed"
  /\ failed' = Append(failed, message)

\* ------------------------------------------------------------------ inputs

\* What run() does with the inputs before it awaits setupCli: the error it
\* throws (None when it throws none), the prompt contents as assigned so far
\* and the files read so far. pExists and sExists are the answers of
\* fs.existsSync for promptPath and systemPromptFilePath.
Resolved(error, p, s, reads) ==
  [error |-> error, promptContent |-> p, systemPromptContent |-> s, reads |-> reads]

\* A resolution without the checks for conflicting inputs: the literal wins.
ResolveLiteralWins(pExists, sExists) ==
  IF apiKey = ""
    THEN Resolved("Input required and not supplied: dashscope_api_key", "", "", <<>>)
  ELSE IF prompt = "" /\ promptPath = ""
    THEN Resolved("Either the prompt or prompt_path input must be provided.", "", "", <<>>)
  ELSE IF prompt = "" /\ ~pExists
    THEN Resolved("Prompt file not found", "", "", <<>>)
  ELSE
    LET p == IF prompt # "" THEN prompt ELSE FileText(promptPath)
        reads == IF prompt # "" THEN <<>> ELSE <<promptPath>>
    IN IF systemPrompt # "" THEN Resolved(None, p, systemPrompt, reads)
       ELSE IF systemPromptFilePath = "" THEN Resolved(None, p, "", reads)
       ELSE IF ~sExists THEN Resolved("System prompt file not found", p, "", reads)
       ELSE Resolved(None, p, FileText(systemPromptFilePath),
                     Append(reads, systemPromptFilePath))

Resolve(pExists, sExists) ==
  IF apiKey = ""
    THEN Resolved("Input required and not supplied: dashscope_api_key", "", "", <<>>)
  ELSE IF prompt # "" /\ promptPath # ""
    THEN Resolved("The prompt and prompt_path inputs are mutually exclusive.", "", "", <<>>)
  ELSE IF systemPrompt # "" /\ systemPromptFilePath # ""
    THEN Resolved("The system_prompt and system_prompt_path inputs are mutually exclusive.",
                  "", "", <<>>)
  ELSE IF prompt = "" /\ promptPath = ""
    THEN Resolved("Either the prompt or prompt_path input must be provided.", "", "", <<>>)
  ELSE IF prompt = "" /\ ~pExists
    THEN Resolved("Prompt file not found", "", "", <<>>)
  ELSE
    LET p == IF prompt # "" THEN prompt ELSE FileText(promptPath)
        reads == IF prompt # "" THEN <<>> ELSE <<promptPath>>
    IN IF systemPrompt # "" THEN Resolved(None, p, systemPrompt, reads)
       ELSE IF systemPromptFilePath = "" THEN Resolved(None, p, "", reads)
       ELSE IF ~sExists THEN Resolved("System prompt file not found", p, "", reads)
       ELSE Resolved(None, p, FileText(systemPromptFilePath),
                     Append(reads, systemPromptFilePath))

ResolveInputs ==
  /\ pc = "start"
  /\ \E pExists \in BOOLEAN, sExists \in BOOLEAN :
       LET r == Resolve(pExists, sExists) IN
       /\ promptContent' = r.promptContent
       /\ systemPromptContent' = r.systemPromptContent
       /\ fileReads' = r.reads
       /\ IF r.error # None
            THEN Catch(r.error)
            ELSE pc' = "get" /\ UNCHANGED failed
  /\ UNCHANGED <<inputVars, setupVars, launchVars, streamVars, closeVars, warnings>>

\* ------------------------------------------------------------------ setupCli

\* The message of the error setupCli throws for a response that is not 200.
DownloadError(status) == "Failed to download qoder-cli: " \o status

\* A check that rejects server errors only.
IsNotServerError(status) == status # "500"

\* response.message.statusCode !== 200 is false
IsOk(status) == status = "200"

\* A write stream that creates the file with mode 755.
CreateExecutable(file) == [file EXCEPT !.exists = TRUE, !.written = 0, !.executable = TRUE]

\* fs.createWriteStream(dest): the file is created, or emptied if it exists;
\* its mode is kept.
CreateWriteStream(file) == [file EXCEPT !.exists = TRUE, !.written = 0]

\* await httpClient.get(url) answers with a status code.
\* Not 200: setupCli throws, run() catches. 200: fs.createWriteStream(dest)
\* creates or truncates the file and response.message.pipe(fileStream) starts.
HttpResponse ==
  /\ pc = "get"
  /\ httpGets' = httpGets + 1
  /\ \E status \in HttpStatus :
       /\ statusCode' = status
       /\ IF ~IsOk(status)
         THEN /\ Catch(DownloadError(status))
              /\ UNCHANGED <<cliFile, fileStream>>
         ELSE /\ pc' = "pipe"
              /\ cliFile' = CreateWriteStream(cliFile)
              /\ fileStream' = "open"
              /\ UNCHANGED failed
  /\ UNCHANGED <<inputVars, resolveVars, launchVars, streamVars, closeVars, warnings>>

\* await httpClient.get(url) rejects (no connection): run() catches.
HttpError ==
  /\ pc = "get"
  /\ httpGets' = httpGets + 1
  /\ Catch("connect ECONNREFUSED")
  /\ UNCHANGED <<inputVars, resolveVars, statusCode, cliFile, fileStream, launchVars, streamVars,
                 closeVars, warnings>>

\* pipe() writes one more piece of the response body to the file.
PipeChunk ==
  /\ pc = "pipe"
  /\ fileStream = "open"
  /\ cliFile.written < BodyChunks
  /\ cliFile' = [cliFile EXCEPT !.written = @ + 1]
  /\ UNCHANGED <<pc, inputVars, resolveVars, httpGets, statusCode, fileStream, launchVars,
                 streamVars, closeVars, hostVars>>

\* A chmod that flips the owner's execute bit instead of setting the mode.
ChmodToggle(file) == [file EXCEPT !.executable = ~@]

\* fs.chmodSync(dest, '755')
Chmod(file) == [file EXCEPT !.executable = TRUE]

\* The response ended, pipe() called fileStream.end() and the stream emitted
\* 'finish': the handler makes the file executable and resolves the promise.
WriteFinish ==
  /\ pc = "pipe"
  /\ fileStream = "open"
  /\ cliFile.written = BodyChunks
  /\ fileStream' = "finished"
  /\ cliFile' = Chmod(cliFile)
  /\ pc' = "provisioned"
  /\ UNCHANGED <<inputVars, resolveVars, httpGets, statusCode, launchVars, streamVars,
                 closeVars, hostVars>>

\* The write stream emitted 'error' (the file cannot be opened, the disk is
\* full): the promise is rejected and run() catches.
WriteError ==
  /\ pc = "pipe"
  /\ fileStream = "open"
  /\ fileStream' = "errored"
  /\ Catch("ENOSPC: no space left on device, write")
  /\ UNCHANGED <<inputVars, resolveVars, httpGets, statusCode, cliFile, launchVars,
                 streamVars, closeVars, warnings>>

\* The response broke off before its end: pipe() neither ends nor fails the
\* write stream, so the promise of setupCli is never settled.
ResponseAborted ==
  /\ pc = "pipe"
  /\ fileStream = "open"
  /\ cliFile.written < BodyChunks
  /\ pc' = "pending"
  /\ UNCHANGED <<inputVars, resolveVars, setupVars, launchVars, streamVars, closeVars, hostVars>>

\* ------------------------------------------------------------------ launch

\* A createCliConfig that writes the string before it validates it.
createCliConfigWritesFirst(config, file) ==
  IF config = "" THEN [error |-> None, file |-> file]
  ELSE IF ConfigIsJson(config) THEN [error |-> None, file |-> config]
  ELSE [error |-> "Failed to create .qoder-cli.json: Unexpected end of JSON input",
        file |-> config]

\* A createCliConfig that writes whatever it is given and never throws.
createCliConfigUnvalidated(config, file) ==
  IF config = "" THEN [error |-> None, file |-> file]
  ELSE [error |-> None, file |-> config]

\* createCliConfig(configJson): the error it throws (None when it throws
\* none) and the content of .qoder-cli.json afterwards.
createCliConfig(config, file) ==
  IF config = "" THEN [error |-> None, file |-> file]
  ELSE IF ConfigIsJson(config) THEN [error |-> None, file |-> config]
  ELSE [error |-> "Failed to create .qoder-cli.json: Unexpected end of JSON input",
        file |-> file]

\* An argument vector that carries the system-prompt flag even when the
\* system prompt is empty.
ArgsWithSystemPromptAlways(p, s) ==
  <<"--prompt", p, "--output-format", "stream-json", "--system-prompt", s>>

\* The argument vector of the child.
Args(p, s) ==
  <<"--prompt", p, "--output-format", "stream-json">>
    \o (IF s # "" THEN <<"--system-prompt", s>> ELSE <<>>)

\* A launch that opens the log stream before it materializes the config.
LaunchLogFirst ==
  /\ pc = "provisioned"
  /\ LET c == createCliConfig(configJson, configFile) IN
     /\ configFile' = c.file
     /\ logStream' = "open"
     /\ IF c.error # None
          THEN /\ Catch(c.error)
               /\ UNCHANGED <<args, spawns>>
          ELSE /\ args' = Args(promptContent, systemPromptContent)
               /\ spawns' = spawns + 1
               /\ \E started \in BOOLEAN : pc' = IF started THEN "running" ELSE "spawn-error"
               /\ UNCHANGED failed
  /\ UNCHANGED <<inputVars, resolveVars, setupVars, streamVars, closeVars, warnings>>

\* run() after setupCli has resolved: the config file, the log stream, the
\* arguments and spawn(); the handlers of the child are attached in the same
\* turn. A spawn that fails reports it later, with an 'error' event.
Launch ==
  /\ pc = "provisioned"
  /\ LET c == createCliConfig(configJson, configFile) IN
     /\ configFile' = c.file
     /\ IF c.error # None
          THEN /\ Catch(c.error)
               /\ UNCHANGED <<logStream, args, spawns>>
          ELSE /\ logStream' = "open"
               /\ args' = Args(promptContent, systemPromptContent)
               /\ spawns' = spawns + 1
               /\ \E started \in BOOLEAN : pc' = IF started THEN "running" ELSE "spawn-error"
               /\ UNCHANGED failed
  /\ UNCHANGED <<inputVars, resolveVars, setupVars, streamVars, closeVars, warnings>>

\* The 'error' event of a child that could not be spawned: run() attaches no
\* 'error' handler, so the event is thrown as an uncaught exception.
SpawnError ==
  /\ pc = "spawn-error"
  /\ pc' = "crashed"
  /\ UNCHANGED <<inputVars, resolveVars, setupVars, launchVars, streamVars, closeVars, hostVars>>

\* ------------------------------------------------------------------ streams

\* The loop of the stdout handler over the lines of one chunk: the last line
\* that JSON.parse accepts replaces the retained one.
RECURSIVE Retain(_, _)
Retain(last, lines) ==
  IF lines = <<>> THEN last
  ELSE Retain(IF IsJson(Head(lines)) THEN Head(lines) ELSE last, Tail(lines))

\* The child writes one more line to its stdout.
ChildWritesStdout ==
  /\ pc = "running"
  /\ ~exited /\ ~stdoutEnded
  /\ LineFeeds(Concat(stdoutChunks) \o stdoutPipe) < MaxStdoutLines
  /\ \E line \in StdoutLine : stdoutPipe' = stdoutPipe \o line
  /\ UNCHANGED <<pc, inputVars, resolveVars, setupVars, launchVars, stderrPipe, stdoutEnded,
                 stderrEnded, exited, stdoutVars, stderrChunks, logFile, closeVars, hostVars>>

\* The child writes one more message to its stderr.
ChildWritesStderr ==
  /\ pc = "running"
  /\ ~exited /\ ~stderrEnded
  /\ LineFeeds(Concat(stderrChunks) \o stderrPipe) < MaxStderrWrites
  /\ \E message \in StderrWrite : stderrPipe' = stderrPipe \o message
  /\ UNCHANGED <<pc, inputVars, resolveVars, setupVars, launchVars, stdoutPipe, stdoutEnded,
                 stderrEnded, exited, stdoutVars, stderrChunks, logFile, closeVars, hostVars>>

\* A pipe of a spawned child delivers data until it has ended.
Flowing(ended) == pc \in {"running", "closed"} /\ ~ended

\* A write that replaces the content of the log.
LogOverwrite(log, data) == <<data>>

\* logStream.write(data)
LogWrite(log, data) == Append(log, data)

\* qoderProcess.stdout.on('data', ...): the pipe delivers some of what it
\* holds, at least one character, as one chunk.
StdoutData ==
  /\ Flowing(stdoutEnded)
  /\ \E n \in 1..Len(stdoutPipe) :
       LET output == SubSeq(stdoutPipe, 1, n) IN
       /\ stdoutPipe' = SubSeq(stdoutPipe, n + 1, Len(stdoutPipe))
       /\ stdoutChunks' = Append(stdoutChunks, output)
       /\ hostStdout' = hostStdout \o output
       /\ logFile' = LogWrite(logFile, output)
       /\ lastJsonLine' = Retain(lastJsonLine, NonBlankLines(output))
  /\ UNCHANGED <<pc, inputVars, resolveVars, setupVars, launchVars, stderrPipe, stdoutEnded,
                 stderrEnded, exited, stderrChunks, closeVars, hostVars>>

\* The text the stderr handler writes to the log for a chunk; "[STDERR] "
\* stands for the nine characters of the prefix.
StderrEntry(errorOutput) == <<"[STDERR] ">> \o errorOutput

\* qoderProcess.stderr.on('data', ...)
StderrData ==
  /\ Flowing(stderrEnded)
  /\ \E n \in 1..Len(stderrPipe) :
       LET errorOutput == SubSeq(stderrPipe, 1, n) IN
       /\ stderrPipe' = SubSeq(stderrPipe, n + 1, Len(stderrPipe))
       /\ stderrChunks' = Append(stderrChunks, errorOutput)
       /\ warnings' = Append(warnings, [msg |-> "qoder-cli stderr", data |-> errorOutput])
       /\ logFile' = LogWrite(logFile, StderrEntry(errorOutput))
  /\ UNCHANGED <<pc, inputVars, resolveVars, setupVars, launchVars, stdoutPipe, stdoutEnded,
                 stderrEnded, exited, stdoutVars, closeVars, failed>>

\* The child process exits; what it wrote and was not yet delivered stays in
\* the pipes.
ChildExit ==
  /\ pc = "running"
  /\ ~exited
  /\ exited' = TRUE
  /\ UNCHANGED <<pc, inputVars, resolveVars, setupVars, launchVars, stdoutPipe, stderrPipe,
                 stdoutEnded, stderrEnded, stdoutVars, stderrChunks, logFile, closeVars,
                 hostVars>>

\* The stdout pipe ends: the child has closed it, or has exited, and the pipe
\* is drained.
StdoutEnd ==
  /\ Flowing(stdoutEnded)
  /\ stdoutPipe = <<>>
  /\ stdoutEnded' = TRUE
  /\ UNCHANGED <<pc, inputVars, resolveVars, setupVars, launchVars, stdoutPipe, stderrPipe,
                 stderrEnded, exited, stdoutVars, stderrChunks, logFile, closeVars, hostVars>>

\* The stderr pipe ends: the child has closed it, or has exited, and the pipe
\* is drained.
StderrEnd ==
  /\ Flowing(stderrEnded)
  /\ stderrPipe = <<>>
  /\ stderrEnded' = TRUE
  /\ UNCHANGED <<pc, inputVars, resolveVars, setupVars, launchVars, stdoutPipe, stderrPipe,
                 stdoutEnded, exited, stdoutVars, stderrChunks, logFile, closeVars, hostVars>>

\* ------------------------------------------------------------------ close

\* The 'exit' event is emitted once the process has exited, whether or not
\* its pipes have ended.
ExitEmitted == exited

\* A 'close' event that waits for the pipes only, not for the process.
PipesEnded == stdoutEnded /\ stderrEnded

\* The 'close' event is emitted once the process has exited and both of its
\* pipes have ended.
CloseEmitted == exited /\ stdoutEnded /\ stderrEnded

Verdict(failure, warning, info, type, content) ==
  [failed |-> failure, warning |-> warning, successInfo |-> info,
   resultType |-> type, resultContent |-> content]

\* result.subtype || 'unknown'
ResultType(result) ==
  IF result.type = "object" /\ result.subtype \notin {Absent, ""} THEN result.subtype
  ELSE "unknown"

\* result.message?.content?.[0]?.text without the fallback to ''
ResultContentWithoutDefault(result) ==
  IF result.type = "object" THEN result.text ELSE Absent

\* result.message?.content?.[0]?.text || ''
ResultContent(result) ==
  IF result.type = "object" /\ result.text # Absent THEN result.text ELSE ""

\* A classifier that looks at the retained line before the exit code.
ClassifyRecordFirst(code, line) ==
  IF line # <<>> /\ JsonParse(line) # SyntaxError /\ JsonParse(line).type = "object"
     /\ ResultType(JsonParse(line)) = "success"
    THEN Verdict(None, None, TRUE, "success", ResultContent(JsonParse(line)))
  ELSE IF code # "0"
    THEN Verdict("qoder-cli process failed. See qoder.log.", None, FALSE, None, None)
  ELSE Verdict("No valid JSON output from qoder-cli.", None, FALSE, None, None)

\* A classifier without the check for an empty retained line: JSON.parse('')
\* throws and the handler reports a parse failure.
ClassifyWithoutEmptyCheck(code, line) ==
  IF code # "0"
    THEN Verdict("qoder-cli process failed. See qoder.log.", None, FALSE, None, None)
  ELSE
    LET result == JsonParse(line) IN
    IF result = SyntaxError
      THEN Verdict("Failed to parse final JSON: Unexpected end of JSON input",
                   None, FALSE, None, None)
    ELSE IF result.type = "null"
      THEN Verdict("Failed to parse final JSON: Cannot read properties of null",
                   None, FALSE, None, None)
    ELSE IF ResultType(result) = "success"
      THEN Verdict(None, None, TRUE, ResultType(result), ResultContent(result))
    ELSE Verdict(None, ResultType(result), FALSE, ResultType(result), ResultContent(result))

\* A classifier with the strict policy: a record that does not report
\* success fails the run.
ClassifyStrict(code, line) ==
  IF code # "0"
    THEN Verdict("qoder-cli process failed. See qoder.log.", None, FALSE, None, None)
  ELSE IF line = <<>>
    THEN Verdict("No valid JSON output from qoder-cli.", None, FALSE, None, None)
  ELSE
    LET result == JsonParse(line) IN
    IF result = SyntaxError
      THEN Verdict("Failed to parse final JSON: Unexpected token", None, FALSE, None, None)
    ELSE IF result.type = "null"
      THEN Verdict("Failed to parse final JSON: Cannot read properties of null",
                   None, FALSE, None, None)
    ELSE IF ResultType(result) = "success"
      THEN Verdict(None, None, TRUE, ResultType(result), ResultContent(result))
    ELSE Verdict("qoder-cli did not report success", None, FALSE,
                 ResultType(result), ResultContent(result))

\* A classifier whose branch for a non-zero exit code does not return: it
\* signals the failure and goes on to the retained record.
ClassifyWithoutReturn(code, line) ==
  LET failure == IF code # "0" THEN "qoder-cli process failed. See qoder.log." ELSE None IN
  IF line = <<>>
    THEN Verdict("No valid JSON output from qoder-cli.", None, FALSE, None, None)
  ELSE
    LET result == JsonParse(line) IN
    IF result = SyntaxError
      THEN Verdict("Failed to parse final JSON: Unexpected token", None, FALSE, None, None)
    ELSE IF result.type = "null"
      THEN Verdict("Failed to parse final JSON: Cannot read properties of null",
                   None, FALSE, None, None)
    ELSE IF ResultType(result) = "success"
      THEN Verdict(failure, None, TRUE, ResultType(result), ResultContent(result))
    ELSE Verdict(failure, ResultType(result), FALSE, ResultType(result), ResultContent(result))

\* What the 'close' handler does with the exit code and the retained line.
Classify(code, line) ==
  IF code # "0"
    THEN Verdict("qoder-cli process failed. See qoder.log.", None, FALSE, None, None)
  ELSE IF line = <<>>
    THEN Verdict("No valid JSON output from qoder-cli.", None, FALSE, None, None)
  ELSE
    LET result == JsonParse(line) IN
    IF result = SyntaxError
      THEN Verdict("Failed to parse final JSON: Unexpected token", None, FALSE, None, None)
    ELSE IF result.type = "null"
      THEN Verdict("Failed to parse final JSON: Cannot read properties of null",
                   None, FALSE, None, None)
    ELSE IF ResultType(result) = "success"
      THEN Verdict(None, None, TRUE, ResultType(result), ResultContent(result))
    ELSE Verdict(None, ResultType(result), FALSE, ResultType(result), ResultContent(result))

\* qoderProcess.on('close', (code) => ...)
Close ==
  /\ pc = "running"
  /\ CloseEmitted
  /\ pc' = "closed"
  /\ logStream' = "ended"
  /\ \E code \in ExitCode :
       LET v == Classify(code, lastJsonLine) IN
       /\ exitCode' = code
       /\ failed' = IF v.failed # None THEN Append(failed, v.failed) ELSE failed
       /\ warnings' = IF v.warning # None
                        THEN Append(warnings, [msg |-> "qoder-cli did not report success",
                                               data |-> <<v.warning>>])
                        ELSE warnings
       /\ successInfo' = v.successInfo
       /\ resultType' = v.resultType
       /\ resultContent' = v.resultContent
  /\ UNCHANGED <<inputVars, resolveVars, setupVars, configFile, args, spawns, streamVars,
                 outputs>>

\* ------------------------------------------------------------------ run

Next ==
  \/ ResolveInputs
  \/ HttpResponse
  \/ HttpError
  \/ PipeChunk
  \/ WriteFinish
  \/ WriteError
  \/ ResponseAborted
  \/ Launch
  \/ SpawnError
  \/ ChildWritesStdout
  \/ ChildWritesStderr
  \/ StdoutData
  \/ StderrData
  \/ ChildExit
  \/ StdoutEnd
  \/ StderrEnd
  \/ Close

Spec == Init /\ [][Next]_vars

\* ------------------------------------------------------------------ runs in one directory

\* A .qoder-cli.json that the working directory holds before the first run.
OldConfig == "{\"old\":true}"

\* A first run in a working directory that may hold a .qoder-cli.json.
InitSetup ==
  /\ RunStarts
  /\ cliFile = NoFile
  /\ configFile \in {None, OldConfig}

\* run() is called again in the working directory an earlier run has left: the
\* earlier run has failed, has crashed, was ended by the host while setupCli
\* was pending, or has spawned its child, after which it changes neither
\* qoder-cli nor .qoder-cli.json.
NextRun ==
  /\ pc \in {"failed", "crashed", "pending", "running"}
  /\ pc' = "start"
  /\ apiKey' \in ApiKeyInputs
  /\ prompt' \in PromptInputs
  /\ promptPath' \in PromptPathInputs
  /\ systemPrompt' \in SystemPromptInputs
  /\ systemPromptFilePath' \in SystemPromptPathInputs
  /\ configJson' \in ConfigInputs
  /\ promptContent' = ""
  /\ systemPromptContent' = ""
  /\ fileReads' = <<>>
  /\ httpGets' = 0
  /\ statusCode' = None
  /\ fileStream' = "none"
  /\ logStream' = "none"
  /\ args' = <<>>
  /\ spawns' = 0
  /\ failed' = <<>>
  /\ warnings' = <<>>
  /\ UNCHANGED <<cliFile, configFile, logFile, childVars, stdoutVars,
                 stderrChunks, closeVars>>

NextSetup ==
  \/ ResolveInputs
  \/ HttpResponse
  \/ HttpError
  \/ PipeChunk
  \/ WriteFinish
  \/ WriteError
  \/ ResponseAborted
  \/ Launch
  \/ SpawnError
  \/ NextRun

\* Runs of the action, one after the other in one working directory, each up
\* to the spawn of its child.
SpecSetup == InitSetup /\ [][NextSetup]_vars

\* ------------------------------------------------------------------ the child of one run

\* run() has spawned the child of a run that was given the literal prompt A
\* and no system prompt and no config, and has attached its handlers.
InitStream ==
  /\ pc = "running"
  /\ apiKey = "K"
  /\ prompt = "A"
  /\ promptPath = ""
  /\ systemPrompt = ""
  /\ systemPromptFilePath = ""
  /\ configJson = ""
  /\ promptContent = "A"
  /\ systemPromptContent = ""
  /\ fileReads = <<>>
  /\ httpGets = 1
  /\ statusCode = "200"
  /\ cliFile = [exists |-> TRUE, executable |-> TRUE, written |-> BodyChunks]
  /\ fileStream = "finished"
  /\ configFile = None
  /\ logStream = "open"
  /\ logFile = <<>>
  /\ args = Args("A", "")
  /\ spawns = 1
  /\ stdoutPipe = <<>>
  /\ stderrPipe = <<>>
  /\ stdoutChunks = <<>>
  /\ stderrChunks = <<>>
  /\ stdoutEnded = FALSE
  /\ stderrEnded = FALSE
  /\ exited = FALSE
  /\ exitCode = None
  /\ hostStdout = <<>>
  /\ lastJsonLine = <<>>
  /\ resultType = None
  /\ resultContent = None
  /\ failed = <<>>
  /\ warnings = <<>>
  /\ successInfo = FALSE
  /\ outputs = {}

NextStream ==
  \/ ChildWritesStdout
  \/ ChildWritesStderr
  \/ StdoutData
  \/ StderrData
  \/ ChildExit
  \/ StdoutEnd
  \/ StderrEnd
  \/ Close

\* The child of one run and the handlers of run(). Node emits 'close' once the
\* child has exited and its pipes have ended, and the event loop then runs
\* the handler.
SpecStream == InitStream /\ [][NextStream]_vars /\ WF_vars(Close)

\* ------------------------------------------------------------------ properties

ProcessFailed == "qoder-cli process failed. See qoder.log."

NoJsonOutput == "No valid JSON output from qoder-cli."

ResultWarnings == SelectSeq(warnings, LAMBDA w : w.msg = "qoder-cli did not report success")

\* The 'close' handler has run.
Closed == pc = "closed"

\* C1: a run whose child closes with an exit code other than 0 signals the
\* process failure and nothing else: the retained line is not looked at, no
\* success is reported, no result is extracted, whatever stdout carried.
C1_NonZeroExitFails ==
  (Closed /\ exitCode # "0") =>
    /\ failed = <<ProcessFailed>>
    /\ ~successInfo
    /\ resultType = None /\ resultContent = None
    /\ ResultWarnings = <<>>
    /\ outputs = {}

\* Exit code 7 with a retained success record.
C1_Witness ==
  Closed /\ exitCode = "7" /\ lastJsonLine = <<"S">> /\ failed = <<ProcessFailed>>

\* The lines of the whole stdout stream, and the last of them that is JSON
\* (empty when none is).
StreamLines == Split(Concat(stdoutChunks))

RECURSIVE LastJson(_)
LastJson(lines) ==
  IF lines = <<>> THEN <<>>
  ELSE IF IsJson(lines[Len(lines)]) THEN lines[Len(lines)]
  ELSE LastJson(SubSeq(lines, 1, Len(lines) - 1))

\* C2: once the 'close' handler has run, the retained line is the last line
\* of the stdout stream that is valid JSON, and empty when the stream has no
\* such line, however the stream was cut into chunks.
C2_RetainedIsLastJsonLine ==
  Closed => lastJsonLine = LastJson(StreamLines)

\* The lines the stdout handler has tried to parse.
RECURSIVE SeenLines(_)
SeenLines(chunks) ==
  IF chunks = <<>> THEN <<>> ELSE NonBlankLines(Head(chunks)) \o SeenLines(Tail(chunks))

NoJsonSeen == \A i \in 1..Len(SeenLines(stdoutChunks)) : ~IsJson(SeenLines(stdoutChunks)[i])

\* C3: a run whose child closes with exit code 0 and whose stdout handler
\* never saw a line that is valid JSON (an empty stdout included) signals
\* failure with "No valid JSON output" and reports no success.
C3_NoJsonFails ==
  (Closed /\ exitCode = "0" /\ NoJsonSeen) =>
    /\ failed = <<NoJsonOutput>>
    /\ ~successInfo
    /\ resultType = None

\* Exit code 0 after stdout carried a line, which was no JSON.
C3_Witness ==
  /\ Closed /\ exitCode = "0" /\ NoJsonSeen
  /\ stdoutChunks # <<>>
  /\ failed = <<NoJsonOutput>>

\* The retained line is a JSON object whose subtype is "success".
RetainedSuccess ==
  /\ lastJsonLine # <<>>
  /\ JsonParse(lastJsonLine).type = "object"
  /\ JsonParse(lastJsonLine).subtype = "success"

\* message.content[0].text of the retained record, '' when it is absent.
RetainedText ==
  IF JsonParse(lastJsonLine).text = Absent THEN "" ELSE JsonParse(lastJsonLine).text

\* C4: a run whose child closes with exit code 0 and whose retained record
\* has subtype "success" reports success, extracts the record's text ('' when
\* the record has none) and signals no failure.
C4_SuccessVerdict ==
  (Closed /\ exitCode = "0" /\ RetainedSuccess) =>
    /\ successInfo
    /\ resultType = "success"
    /\ resultContent = RetainedText
    /\ failed = <<>>
    /\ ResultWarnings = <<>>

\* A success record without text, followed by a line that is no JSON.
C4_Witness ==
  /\ Closed /\ exitCode = "0"
  /\ lastJsonLine = <<"U">>
  /\ StreamLines = << <<"U">>, <<"x">>, <<>> >>
  /\ resultContent = ""

\* The run is on the success path.
SuccessPath == Closed /\ exitCode = "0" /\ RetainedSuccess

\* C5: the result tag and the extracted text are set as outputs on the success
\* path, and no output is set on any other path.
C5_OutputsOnSuccessPath ==
  /\ SuccessPath => outputs # {}
  /\ (pc \in {"failed", "crashed", "closed"} /\ ~SuccessPath) => outputs = {}

\* The number of characters of "[STDERR] ".
PrefixLen == 9

\* The length of a text in characters.
RECURSIVE TextLen(_)
TextLen(t) ==
  IF t = <<>> THEN 0
  ELSE (IF Head(t) = "[STDERR] " THEN PrefixLen ELSE 1) + TextLen(Tail(t))

RECURSIVE TotalLen(_)
TotalLen(ts) == IF ts = <<>> THEN 0 ELSE TextLen(Head(ts)) + TotalLen(Tail(ts))

\* The stderr chunks, each behind its prefix.
PrefixedStderr == [i \in 1..Len(stderrChunks) |-> <<"[STDERR] ">> \o stderrChunks[i]]

\* log takes every entry of a and of b once, each sequence in its own order.
RECURSIVE Interleaves(_, _, _)
Interleaves(log, a, b) ==
  IF log = <<>> THEN a = <<>> /\ b = <<>>
  ELSE \/ a # <<>> /\ Head(log) = Head(a) /\ Interleaves(Tail(log), Tail(a), b)
       \/ b # <<>> /\ Head(log) = Head(b) /\ Interleaves(Tail(log), a, Tail(b))

C7_LogEndedLast ==
  /\ [](logStream = "ended" => (exited /\ stdoutEnded /\ stderrEnded))
  /\ [][logStream = "ended" => UNCHANGED <<stdoutChunks, stderrChunks, logFile>>]_vars

\* The log is ended after chunks of both streams were written to it.
C7_Witness ==
  /\ logStream = "ended" /\ exited /\ stdoutEnded /\ stderrEnded
  /\ stdoutChunks # <<>> /\ stderrChunks # <<>>
  /\ Len(logFile) = Len(stdoutChunks) + Len(stderrChunks)

ConfigFailed ==
  failed = <<"Failed to create .qoder-cli.json: Unexpected end of JSON input">>

\* setupCli has resolved: run() has gone on behind the await.
SetupResolved ==
  \/ pc \in {"provisioned", "spawn-error", "running", "crashed", "closed"}
  \/ pc = "failed" /\ ConfigFailed

\* C8: the file is executable only when the write stream has finished with
\* the whole body written, never while the body is partly written or after
\* the stream failed, and setupCli has resolved only if the file is executable.
C8_ExecutableAfterFinish ==
  /\ cliFile.executable => (fileStream = "finished" /\ cliFile.written = BodyChunks)
  /\ fileStream \in {"open", "errored"} => ~cliFile.executable
  /\ SetupResolved => cliFile.executable

\* setupCli has resolved with the whole body written.
C8_Witness ==
  /\ pc = "provisioned"
  /\ cliFile.executable /\ cliFile.written = BodyChunks /\ fileStream = "finished"

\* C9: setupCli calls httpClient.get once; after a response that is not 200
\* the run has failed with an error naming the status, after the one call,
\* with no file created or marked and no child spawned.
C9_DownloadFailureIsTerminal ==
  /\ httpGets <= 1
  /\ pc \in {"pipe", "pending"} \/ SetupResolved => httpGets = 1
  /\ statusCode \notin {None, "200"} =>
       /\ pc = "failed"
       /\ failed = <<DownloadError(statusCode)>>
       /\ httpGets = 1
       /\ ~cliFile.exists /\ ~cliFile.executable /\ fileStream = "none"
       /\ spawns = 0

\* A 404 response.
C9_Witness ==
  statusCode = "404" /\ pc = "failed" /\ failed = <<"Failed to download qoder-cli: 404">>

PromptConflict == prompt # "" /\ promptPath # ""

SystemPromptConflict == systemPrompt # "" /\ systemPromptFilePath # ""

ConflictError ==
  IF PromptConflict THEN "The prompt and prompt_path inputs are mutually exclusive."
  ELSE "The system_prompt and system_prompt_path inputs are mutually exclusive."

\* The run has failed before any file was read, with nothing downloaded and
\* no child spawned.
FailedBeforeAnyEffect ==
  /\ pc = "failed"
  /\ Len(failed) = 1
  /\ fileReads = <<>>
  /\ httpGets = 0 /\ ~cliFile.exists
  /\ spawns = 0

\* C10 as stated: a run given both a literal and a path, for the prompt or for
\* the system prompt, fails with the error for conflicting inputs before any
\* file is read, downloads nothing and spawns no child.
C10_ConflictFails ==
  (pc # "start" /\ (PromptConflict \/ SystemPromptConflict)) =>
    (FailedBeforeAnyEffect /\ failed = <<ConflictError>>)

\* C10, amended: such a run fails before any file is read, downloads nothing
\* and spawns no child; the error is the one for conflicting inputs when the
\* required input dashscope_api_key is supplied, and the one for the missing
\* required input when it is not.
C10_ConflictFailsGivenApiKey ==
  (pc # "start" /\ (PromptConflict \/ SystemPromptConflict)) =>
    /\ FailedBeforeAnyEffect
    /\ apiKey # "" => failed = <<ConflictError>>
    /\ apiKey = "" => failed = <<"Input required and not supplied: dashscope_api_key">>

\* A literal prompt and a prompt path, both supplied with the API key.
C10_Witness ==
  /\ pc = "failed" /\ apiKey = "K" /\ prompt = "A" /\ promptPath = "B"
  /\ failed = <<"The prompt and prompt_path inputs are mutually exclusive.">>

\* ---- config materializer

\* The config input is a non-empty string that JSON.parse rejects.
InvalidConfig == configJson # "" /\ ~ConfigIsJson(configJson)

\* C11: when run() reaches createCliConfig with a non-empty config that is
\* not valid JSON, the run fails with the error that carries the parse
\* diagnostic, .qoder-cli.json keeps what it held, no log is opened and no
\* child is spawned; with a valid JSON config the file holds the string as
\* given, whatever it held before.
C11_InvalidConfigWritesNothing ==
  /\ []((pc = "failed" /\ ConfigFailed) =>
          (InvalidConfig /\ spawns = 0 /\ logStream = "none" /\ configFile # configJson))
  /\ [][(pc = "provisioned" /\ pc' # pc) =>
          /\ InvalidConfig =>
               /\ pc' = "failed"
               /\ failed' = <<"Failed to create .qoder-cli.json: Unexpected end of JSON input">>
               /\ configFile' = configFile
               /\ spawns' = 0
          /\ (configJson # "" /\ ~InvalidConfig) =>
               /\ configFile' = configJson
               /\ failed' = <<>>]_vars

\* A run has failed on its invalid config in a directory whose
\* .qoder-cli.json, there before the run, is as it was.
C11_Witness ==
  /\ pc = "failed"
  /\ ConfigFailed
  /\ InvalidConfig
  /\ configFile = OldConfig

\* ---- configuration errors

\* The run has ended with a configuration error: conflicting inputs, no task
\* prompt, a prompt file that does not exist, or a config that is not JSON.
ConfigurationError ==
  /\ pc = "failed"
  /\ Len(failed) = 1
  /\ failed[1] \in {"The prompt and prompt_path inputs are mutually exclusive.",
                    "The system_prompt and system_prompt_path inputs are mutually exclusive.",
                    "Either the prompt or prompt_path input must be provided.",
                    "Prompt file not found",
                    "System prompt file not found",
                    "Failed to create .qoder-cli.json: Unexpected end of JSON input"}

\* No config file, no log and no process.
NothingLaunched ==
  /\ configFile = None
  /\ logStream = "none"
  /\ logFile = <<>>
  /\ spawns = 0

\* C12 as stated: a run that ends with a configuration error has written no
\* file (no binary, no config file, no log) and has started no process.
C12_NoArtifactOnConfigurationError ==
  ConfigurationError => (NothingLaunched /\ ~cliFile.exists /\ httpGets = 0)

\* C12: a run that ends with a configuration error has written no config
\* file and no log and has started no process; it has downloaded nothing and
\* written no binary when the error is in the prompt inputs, and it has
\* downloaded the binary and made it executable when the error is the invalid
\* config.
C12_NoLaunchOnConfigurationError ==
  ConfigurationError =>
    /\ NothingLaunched
    /\ ~ConfigFailed => (~cliFile.exists /\ httpGets = 0)
    /\ ConfigFailed => (cliFile.exists /\ cliFile.executable /\ httpGets = 1)

\* A run has ended with the invalid-config error, the binary in place.
C12_Witness ==
  /\ ConfigurationError
  /\ ConfigFailed
  /\ cliFile = [exists |-> TRUE, executable |-> TRUE, written |-> BodyChunks]
  /\ fileReads # <<>>

\* ---- launch failure

\* C13: a run whose child could not be spawned ends with failure signalled to
\* the host with the launch error, and reports no success.
C13_SpawnFailureSignalled ==
  pc = "crashed" => (Len(failed) = 1 /\ ~successInfo)

\* ---- binary provisioner, run again

\* The file at cliPath with the whole body and the mode 755.
Provisioned == [exists |-> TRUE, executable |-> TRUE, written |-> BodyChunks]

\* C14: whenever setupCli resolves, in a first run or in a run that finds the
\* file an earlier run has left, the file exists with the whole body and is
\* executable, after one request of this run with the answer 200; and the
\* write stream of each run starts the file from nothing, keeping its mode.
C14_ProvisionedAfterEachRun ==
  /\ [](pc = "provisioned" =>
          (cliFile = Provisioned /\ httpGets = 1 /\ statusCode = "200"
             /\ fileStream = "finished"))
  /\ [][(pc = "get" /\ pc' = "pipe") =>
          (cliFile'.exists /\ cliFile'.written = 0
             /\ cliFile'.executable = cliFile.executable)]_vars

\* setupCli has resolved in a run that was given no config, in a directory
\* whose .qoder-cli.json was written by an earlier run: by a run that had got
\* past its own setupCli.
C14_Witness ==
  /\ pc = "provisioned"
  /\ cliFile = Provisioned
  /\ configJson = ""
  /\ configFile = "{}"

\* ---- argument vector

\* The flags of the prompt and of the output format with their values, in
\* the places from..from+3 of the vector.
PromptAndFormatAt(from) ==
  /\ Len(args) >= from + 3
  /\ args[from] = "--prompt"
  /\ args[from + 1] = promptContent
  /\ args[from + 2] = "--output-format"
  /\ args[from + 3] = "stream-json"

\* The flag of the system prompt with its value follows the place last, as
\* the end of the vector, exactly when the system prompt is not empty.
SystemPromptAfter(last) ==
  IF systemPromptContent # ""
    THEN /\ Len(args) = last + 2
         /\ args[last + 1] = "--system-prompt"
         /\ args[last + 2] = systemPromptContent
    ELSE Len(args) = last

\* C15 as stated: the vector of every launch starts with the working-directory
\* flag and its value, followed by the prompt flag, the output-format flag and,
\* exactly when a system prompt was resolved, the system-prompt flag.
C15_ArgsWithWorkingDirectory ==
  spawns = 1 => (PromptAndFormatAt(3) /\ SystemPromptAfter(6))

\* C15: the vector of every launch is the prompt flag with the resolved
\* prompt, the output-format flag with stream-json and, exactly when the
\* resolved system prompt is not empty, the system-prompt flag with it, in
\* this order and with nothing else; no vector is built without a launch.
C15_ArgsInOrder ==
  /\ spawns = 1 => (PromptAndFormatAt(1) /\ SystemPromptAfter(4))
  /\ spawns = 0 => args = <<>>

\* A child was launched with a prompt and a system prompt read from files.
C15_Witness ==
  /\ spawns = 1
  /\ args = <<"--prompt", FileText("B"), "--output-format", "stream-json",
              "--system-prompt", FileText("D")>>

\* ---- order of the stages

\* The prompt and the system prompt of this run are resolved: no input is in
\* conflict, and each content is the literal or the text of the file.
InputsResolved ==
  /\ apiKey # ""
  /\ ~PromptConflict /\ ~SystemPromptConflict
  /\ prompt # "" \/ promptPath # ""
  /\ promptContent = (IF prompt # "" THEN prompt ELSE FileText(promptPath))
  /\ systemPromptContent =
       (IF systemPrompt # "" THEN systemPrompt
        ELSE IF systemPromptFilePath # "" THEN FileText(systemPromptFilePath)
        ELSE "")

\* The binary was downloaded by this run and is executable.
BinaryProvisioned ==
  /\ httpGets = 1
  /\ statusCode = "200"
  /\ fileStream = "finished"
  /\ cliFile = Provisioned

\* The config of this run is empty, or is valid JSON and is in the file.
ConfigMaterialized ==
  \/ configJson = ""
  \/ ConfigIsJson(configJson) /\ configFile = configJson

\* C16: a run spawns at most one child, and it spawns it only when setupCli
\* has resolved, with the inputs resolved, the binary downloaded by this run
\* and executable and the config valid and written, and without a failure
\* signalled before; a run that has failed or stays pending in a stage has
\* spawned no child.
C16_SpawnedOnceAfterAllStages ==
  /\ [](/\ spawns \in {0, 1}
        /\ spawns = 1 => (InputsResolved /\ BinaryProvisioned /\ ConfigMaterialized
                            /\ failed = <<>>)
        /\ pc \in {"start", "get", "pipe", "provisioned", "failed", "pending"} => spawns = 0)
  /\ [][spawns' # spawns =>
          \/ pc = "provisioned" /\ spawns = 0 /\ spawns' = 1
          \/ pc' = "start" /\ spawns' = 0]_vars

\* A child runs, spawned after the prompts were read from files, the binary
\* was downloaded and a valid config was written.
C16_Witness ==
  /\ pc = "running"
  /\ spawns = 1
  /\ fileReads = <<"B", "D">>
  /\ BinaryProvisioned
  /\ configJson = "{}" /\ configFile = "{}"

\* ---- outcome classifier

\* The line the stdout handler retains after the chunks, from the first on.
RECURSIVE RetainedAfter(_, _)
RetainedAfter(line, chunks) ==
  IF chunks = <<>> THEN line
  ELSE RetainedAfter(Retain(line, NonBlankLines(Head(chunks))), Tail(chunks))

\* What the 'close' handler has reported is the verdict v.
Reported(v) ==
  /\ failed = (IF v.failed # None THEN <<v.failed>> ELSE <<>>)
  /\ ResultWarnings =
       (IF v.warning # None
          THEN <<[msg |-> "qoder-cli did not report success", data |-> <<v.warning>>]>>
          ELSE <<>>)
  /\ successInfo = v.successInfo
  /\ resultType = v.resultType
  /\ resultContent = v.resultContent

\* C17: once the child has exited and both of its pipes have ended, the
\* 'close' handler runs; it has run only after the exit, with all that the
\* child wrote to stdout delivered, and what it reports is the verdict on the
\* exit code and the line retained after the last chunk; it runs once: after
\* it, no chunk arrives and nothing more is reported.
C17_ClassifierRunsOnceAfterExit ==
  /\ (pc = "running" /\ exited /\ stdoutEnded /\ stderrEnded) ~> Closed
  /\ [](Closed =>
          /\ exited /\ stdoutEnded /\ stderrEnded /\ stdoutPipe = <<>>
          /\ lastJsonLine = RetainedAfter(<<>>, stdoutChunks)
          /\ Reported(Classify(exitCode, RetainedAfter(<<>>, stdoutChunks))))
  /\ [](~Closed => (exitCode = None /\ ~successInfo /\ ResultWarnings = <<>>))
  /\ [][Closed => UNCHANGED <<pc, stdoutChunks, lastJsonLine, closeVars, hostVars>>]_vars

\* The 'close' handler has run after two chunks, the second of which has
\* replaced the line retained from the first.
C17_Witness ==
  /\ Closed
  /\ exitCode = "0"
  /\ Len(stdoutChunks) = 2
  /\ IsJson(Trim(stdoutChunks[1]))
  /\ lastJsonLine = Trim(stdoutChunks[2])
  /\ lastJsonLine # Trim(stdoutChunks[1])

\* ---- warn and continue

\* The retained line is a JSON object whose subtype is not "success".
RetainedNotSuccess ==
  /\ lastJsonLine # <<>>
  /\ JsonParse(lastJsonLine).type = "object"
  /\ JsonParse(lastJsonLine).subtype # "success"

\* The subtype of the retained record, "unknown" when it has none.
RetainedType ==
  IF JsonParse(lastJsonLine).subtype \in {Absent, ""} THEN "unknown"
  ELSE JsonParse(lastJsonLine).subtype

\* C18: a run whose child closes with exit code 0 and whose retained record
\* is an object with a subtype other than "success", or with none, records
\* one warning that names the result type ("unknown" when the subtype is
\* missing), signals no failure and reports no success.
C18_NonSuccessWarns ==
  (Closed /\ exitCode = "0" /\ RetainedNotSuccess) =>
    /\ ResultWarnings = <<[msg |-> "qoder-cli did not report success",
                           data |-> <<RetainedType>>]>>
    /\ resultType = RetainedType
    /\ failed = <<>>
    /\ ~successInfo

\* The child has closed with exit code 0 after a record without a subtype,
\* and a stderr chunk has left its own warning.
C18_Witness ==
  /\ Closed
  /\ exitCode = "0"
  /\ lastJsonLine = <<"{", "}">>
  /\ resultType = "unknown"
  /\ Len(warnings) = 2
  /\ failed = <<>>

\* ---- verdict and stderr

\* C19: the retained record and the verdict of a closed run are what the exit
\* code and the lines of the stdout stream determine, the record being the
\* last line of the stream that is valid JSON, whatever arrived on stderr and
\* however the chunks of the two streams were cut and interleaved; stderr
\* chunks add nothing but their warnings.
C19_VerdictFromExitCodeAndStdoutLines ==
  Closed =>
    /\ Reported(Classify(exitCode, LastJson(StreamLines)))
    /\ Len(warnings) = Len(stderrChunks) + Len(ResultWarnings)

\* ---- one verdict

\* The number of the conditions that hold.
Count(conditions) == Len(SelectSeq(conditions, LAMBDA c : c))

\* C20: a run signals failure at most once and never together with a report
\* of success; a run that failed before the launch has no verdict of the
\* 'close' handler, and a closed run has exactly one of the verdicts failure,
\* success and warning.
C20_OneVerdict ==
  /\ Len(failed) <= 1
  /\ successInfo => failed = <<>>
  /\ pc = "failed" =>
       (Len(failed) = 1 /\ exitCode = None /\ ~successInfo /\ ResultWarnings = <<>>)
  /\ Closed =>
       Count(<<Len(failed) = 1, successInfo, Len(ResultWarnings) = 1>>) = 1
  /\ ~Closed => ~successInfo

\* The child has closed with exit code 0 after a success record and a stderr
\* chunk: success is reported and no failure is signalled.
C20_Witness ==
  /\ Closed
  /\ successInfo
  /\ failed = <<>>
  /\ stderrChunks # <<>>
  /\ lastJsonLine = <<"S">>

====
